---- MODULE Spec2Model ----
(***************************************************************************)
(* Model of AIIterativeDeveloper (src/ai_code.py): the iterative           *)
(* generate / evaluate / improve loop, the evaluator's reply parsing, the  *)
(* streamed fenced-block extraction and the versioned checkpoint store.    *)
(*                                                                         *)
(* Six specifications share the module:                                    *)
(*   Spec          the controller: auto_iterative_development, saves,      *)
(*                 validate_and_merge_code, init_file_manager              *)
(*   SpecEval      _evaluate_code applied to one model reply               *)
(*   SpecStream    _stream_output applied to one fragmented response       *)
(*   SpecValidate  validate_code applied to one content                    *)
(*   SpecLoad      load_existing_project applied to one project root       *)
(*   SpecShared    two controller instances saving to and loading from     *)
(*                 one root, _save_current_version step by step            *)
(*                                                                         *)
(* Scores are exact rationals kept as integers in units of 1/600, so that  *)
(* the mean of one to five scores that are multiples of 0.1 is an integer. *)
(***************************************************************************)
EXTENDS Integers, Sequences, FiniteSets, TLC

VARIABLES
    \* ---- controller (Spec) ----
    pc,              \* position inside auto_iterative_development, "idle" outside
    ret,             \* what the last auto_iterative_development call gave its caller
    file_manager,    \* self.file_manager is set
    output_dir,      \* PathConfig.OUTPUT_DIR is set
    config,          \* self.config: max_iterations, min_improvement_score, auto_save
    project_state,   \* self.project_state: current_code, version, history, user_feedback
    iteration_count, \* local iteration_count of the running call
    attempt,         \* tenacity attempt number inside call_ai_api
    evaluation,      \* local evaluation of the running iteration
    fs,              \* the root directory: version number -> directory v<N>
    saves,           \* history: successful saves performed by this controller
    merges,          \* history: successful validate_and_merge_code calls
    steps,           \* history: loop bodies entered by the running call
    runs,            \* history: auto_iterative_development calls made
    last_save,       \* history: the latest save attempt
    api_error,       \* the exception the latest attempt of call_ai_api raised
    improvements,    \* local improvements of the running iteration
    attempted,       \* history: the save attempts made, target and outcome
    load_ret,        \* what the last load_existing_project call gave its caller
    \* ---- evaluator (SpecEval) ----
    eval_pc,         \* "call" before _evaluate_code ran, "returned" after
    eval_reply,      \* the model's reply to the rubric prompt
    eval_result,     \* what _evaluate_code returned
    \* ---- streamed extraction (SpecStream) ----
    stream_pc,       \* "feed" while fragments remain, then "returned" or "raised"
    stream_text,     \* the whole response text
    stream_chunks,   \* the fragments not yet delivered
    full_response,   \* _stream_output's full_response, joined
    code_content,    \* _stream_output's code_content, joined
    in_code_block,   \* _stream_output's in_code_block
    buffer,          \* _stream_output's buffer
    stream_result,   \* the returned code
    \* ---- validation (SpecValidate) ----
    validate_pc,     \* "call" before validate_code ran, "returned" after
    validate_input,  \* the content validate_code is given
    validate_result, \* what validate_code returned
    \* ---- controllers sharing one root (SpecShared) ----
    instances,       \* each controller instance: its project_state and its
                     \* position inside _save_current_version
    root,            \* the shared root directory: version number -> directory
    completed,       \* history: the successful saves, instance and version
    last_saved       \* history: the latest successful save, while no write
                     \* followed it

ctl_vars == <<pc, ret, file_manager, output_dir, config, project_state,
              iteration_count, attempt, evaluation, fs, saves, merges, steps,
              runs, last_save, api_error, improvements, attempted, load_ret>>
eval_vars == <<eval_pc, eval_reply, eval_result>>
stream_vars == <<stream_pc, stream_text, stream_chunks, full_response,
                 code_content, in_code_block, buffer, stream_result>>
validate_vars == <<validate_pc, validate_input, validate_result>>
shared_vars == <<instances, root, completed, last_saved>>
vars == <<ctl_vars, eval_vars, stream_vars, validate_vars, shared_vars>>

(***************************************************************************)
(* Generic helpers                                                         *)
(***************************************************************************)
RECURSIVE SumOver(_, _)
SumOver(f, S) ==
    IF S = {} THEN 0
    ELSE LET k == CHOOSE x \in S : TRUE IN f[k] + SumOver(f, S \ {k})

Max(S) == CHOOSE x \in S : \A y \in S : y <= x
Min(S) == CHOOSE x \in S : \A y \in S : x <= y

RECURSIVE Flatten(_)
Flatten(ss) == IF ss = <<>> THEN <<>> ELSE Head(ss) \o Flatten(Tail(ss))

(***************************************************************************)
(* The evaluator: _evaluate_code and what it calls                         *)
(***************************************************************************)
\* the score 1.0 in model units
One == 60 * 10
Tenth == One \div 10

required_keys == {"scores", "total_score", "analysis"}
required_scores == {"structure", "style", "error_handling", "readability", "performance"}

\* _evaluate_code falling off its end: Python's None
NoneEvaluation ==
    [kind |-> "none", path |-> "none", keys |-> {}, scores |-> <<>>,
     total_score |-> 0, analysis |-> 0, score |-> 0]

_get_default_evaluation ==
    [kind |-> "report", path |-> "default", keys |-> required_keys,
     scores |-> [d \in required_scores |-> 5 * Tenth],
     total_score |-> 5 * Tenth,
     analysis |-> 16,
     score |-> 0]

\* _validate_evaluation_format without the range check of the scores
_validate_evaluation_format_any_score(data) ==
    IF ~(required_keys \subseteq data.keys) THEN FALSE
    ELSE IF ~(required_scores \subseteq DOMAIN data.scores) THEN FALSE
    ELSE IF ~(0 <= data.total_score /\ data.total_score <= One) THEN FALSE
    ELSE IF data.analysis < 10 THEN FALSE
    ELSE TRUE

\* _validate_evaluation_format without the range check of total_score
_validate_evaluation_format_any_total(data) ==
    IF ~(required_keys \subseteq data.keys) THEN FALSE
    ELSE IF ~(required_scores \subseteq DOMAIN data.scores) THEN FALSE
    ELSE IF ~(\A key \in DOMAIN data.scores :
                 0 <= data.scores[key] /\ data.scores[key] <= One) THEN FALSE
    ELSE IF data.analysis < 10 THEN FALSE
    ELSE TRUE

\* data: a decoded JSON object; data.keys are its top-level keys, data.analysis
\* the length of its analysis string
_validate_evaluation_format(data) ==
    IF ~(required_keys \subseteq data.keys) THEN FALSE
    ELSE IF ~(required_scores \subseteq DOMAIN data.scores) THEN FALSE
    ELSE IF ~(\A key \in DOMAIN data.scores :
                 0 <= data.scores[key] /\ data.scores[key] <= One) THEN FALSE
    ELSE IF ~(0 <= data.total_score /\ data.total_score <= One) THEN FALSE
    ELSE IF data.analysis < 10 THEN FALSE
    ELSE TRUE

\* A reply text is a sequence of tokens:
\*   [t |-> "lbrace"], [t |-> "rbrace"]     a stray brace in prose
\*   [t |-> "json", obj |-> o]              the text of one complete JSON object,
\*                                          one member per line as the prompt asks
\*   [t |-> "line", label, sep, val]        a line "<label><sep> <val>"
HasOpen(tok) == tok.t \in {"lbrace", "json"}
HasClose(tok) == tok.t \in {"rbrace", "json"}

\* str.find('{') and str.rfind('}') in token positions, -1 when absent
Find(text) ==
    LET I == {i \in 1..Len(text) : HasOpen(text[i])}
    IN IF I = {} THEN -1 ELSE Min(I) - 1
RFind(text) ==
    LET I == {i \in 1..Len(text) : HasClose(text[i])}
    IN IF I = {} THEN -1 ELSE Max(I) - 1

\* json.loads succeeds exactly on the text of one JSON object
Decodable(json_str) == Len(json_str) = 1 /\ json_str[1].t = "json"

\* the dimension a lower-cased label is normalised to; a label is the set of
\* the recognised keywords it contains
Classify(label) ==
    IF label \cap {"zh_structure", "structure"} # {} THEN "structure"
    ELSE IF label \cap {"zh_style", "style"} # {} THEN "style"
    ELSE IF label \cap {"zh_error", "error"} # {} THEN "error_handling"
    ELSE IF label \cap {"zh_read", "read"} # {} THEN "readability"
    ELSE IF label \cap {"zh_performance", "performance"} # {} THEN "performance"
    ELSE "unrecognised"

\* the keywords contained in a JSON member name
KeyLabel(key) ==
    IF key = "structure" THEN {"structure"}
    ELSE IF key = "style" THEN {"style"}
    ELSE IF key = "error_handling" THEN {"error"}
    ELSE IF key = "readability" THEN {"read"}
    ELSE IF key = "performance" THEN {"performance"}
    ELSE {}

RECURSIVE SetToSeq(_)
SetToSeq(S) ==
    IF S = {} THEN <<>>
    ELSE LET x == CHOOSE y \in S : TRUE IN <<x>> \o SetToSeq(S \ {x})

\* the "<name>": <number> lines of a JSON object's text
JsonLines(o) ==
    LET ks == IF "scores" \in o.keys THEN SetToSeq(DOMAIN o.scores) ELSE <<>>
    IN [i \in 1..Len(ks) |->
           [t |-> "line", label |-> KeyLabel(ks[i]), sep |-> ":", val |-> o.scores[ks[i]]]]
       \o (IF "total_score" \in o.keys
           THEN <<[t |-> "line", label |-> {}, sep |-> ":", val |-> o.total_score]>>
           ELSE <<>>)

\* the lines of a text, in order
TextLines(text) ==
    Flatten([i \in 1..Len(text) |->
                IF text[i].t = "line" THEN <<text[i]>>
                ELSE IF text[i].t = "json" THEN JsonLines(text[i].obj)
                ELSE <<>>])

\* the number matches 0\.\d+ : a decimal written 0.<digits>
ScoreMatches(val) == 0 <= val /\ val < One

\* the separators of the three score_patterns
PatternSeps(p) ==
    IF p = 1 THEN {":", "fullwidth_colon"} ELSE IF p = 2 THEN {":"} ELSE {"="}

\* re.finditer(score_patterns[p], text)
FindIter(p, text) ==
    SelectSeq(TextLines(text),
              LAMBDA l : l.sep \in PatternSeps(p) /\ ScoreMatches(l.val))

_extract_scores_from_text(text) ==
    LET matches == FindIter(1, text) \o FindIter(2, text) \o FindIter(3, text)
        hit(d) == {i \in 1..Len(matches) : Classify(matches[i].label) = d}
        found == {d \in required_scores : hit(d) # {}}
        scores == [d \in found |-> matches[Max(hit(d))].val]
    IN IF found # {}
       THEN [kind |-> "report", path |-> "fallback", keys |-> required_keys,
             scores |-> scores,
             total_score |-> SumOver(scores, found) \div Cardinality(found),
             analysis |-> 5,
             score |-> 0]
       ELSE _get_default_evaluation

\* reply.err: the request or the stream raised; reply.text: the collected text
_evaluate_code(reply) ==
    IF reply.err THEN _get_default_evaluation
    ELSE
      LET full_text == reply.text
          json_start == Find(full_text)
          json_end == RFind(full_text) + 1
      IN IF json_start >= 0 /\ json_end > json_start
         THEN LET json_str == SubSeq(full_text, json_start + 1, json_end)
              IN IF Decodable(json_str)
                 THEN LET data == json_str[1].obj
                      IN IF _validate_evaluation_format(data)
                         THEN [kind |-> "report", path |-> "json", keys |-> data.keys,
                               scores |-> data.scores, total_score |-> data.total_score,
                               analysis |-> data.analysis, score |-> data.score]
                         ELSE NoneEvaluation
                 ELSE _extract_scores_from_text(full_text)
         ELSE NoneEvaluation

(***************************************************************************)
(* The replies the evaluator is run on                                     *)
(***************************************************************************)
\* the most prose lines in one reply
MaxLines == 2

JsonToken(o) == [t |-> "json", obj |-> o]
LBrace == [t |-> "lbrace"]
RBrace == [t |-> "rbrace"]

JsonScoreMaps ==
    LET base == [required_scores -> {5 * Tenth, 9 * Tenth}]
        half == [d \in required_scores |-> 5 * Tenth]
    IN base
       \cup {[half EXCEPT ![d] = v] : d \in required_scores, v \in {15 * Tenth, 0 - Tenth}}
       \cup {[k \in required_scores \ {d} |-> 5 * Tenth] : d \in required_scores}
       \cup {[k \in required_scores \cup {"security"} |->
                 IF k = "security" THEN v ELSE 5 * Tenth] : v \in {5 * Tenth, 15 * Tenth}}

JsonObjects ==
    {[keys |-> ks, scores |-> m, total_score |-> tot, analysis |-> an, score |-> sc] :
        ks \in {required_keys} \cup {required_keys \ {k} : k \in required_keys},
        m \in JsonScoreMaps,
        tot \in {0, 5 * Tenth, 7 * Tenth, 9 * Tenth, One, 15 * Tenth, 0 - Tenth},
        an \in {3, 12},
        sc \in {0}}
    \cup
    {[keys |-> required_keys \cup {"score"}, scores |-> m, total_score |-> tot,
      analysis |-> 12, score |-> sc] :
        m \in JsonScoreMaps,
        tot \in {5 * Tenth, 9 * Tenth},
        sc \in {5 * Tenth, 9 * Tenth}}

\* the reply of the spec's scenario B, scores rounded to tenths
ScenarioB ==
    [keys |-> required_keys,
     scores |-> [d \in required_scores |->
                    IF d \in {"structure", "readability"} THEN 9 * Tenth ELSE 5 * Tenth],
     total_score |-> 7 * Tenth, analysis |-> 12, score |-> 0]

ProseLines ==
    {[t |-> "line", label |-> lb, sep |-> sv[1], val |-> sv[2]] :
        lb \in {{"zh_structure"}, {"style", "error"}, {"performance"}, {}},
        sv \in {<<":", 6 * Tenth>>, <<"fullwidth_colon", 7 * Tenth>>, <<"=", 7 * Tenth>>}}
    \cup {[t |-> "line", label |-> {"zh_style"}, sep |-> ":", val |-> 7 * Tenth],
          [t |-> "line", label |-> {"structure"}, sep |-> "-", val |-> 6 * Tenth],
          [t |-> "line", label |-> {"read"}, sep |-> ":", val |-> 15 * Tenth]}

RECURSIVE SeqsUpTo(_, _)
SeqsUpTo(S, n) ==
    IF n = 0 THEN {<<>>}
    ELSE LET shorter == SeqsUpTo(S, n - 1)
         IN shorter \cup {Append(s, x) : s \in {q \in shorter : Len(q) = n - 1}, x \in S}

ReplyTexts ==
    LET ls == SeqsUpTo(ProseLines, MaxLines)
    IN {<<JsonToken(o)>> : o \in JsonObjects}
       \cup {<<l>> \o <<JsonToken(ScenarioB)>> \o <<l>> : l \in ProseLines}
       \cup {<<JsonToken(ScenarioB), JsonToken(o)>> : o \in {ScenarioB}}
       \cup ls
       \cup {<<LBrace>> \o s \o <<RBrace>> : s \in ls}
       \cup {<<LBrace>> \o s : s \in ls}
       \cup {<<RBrace>> \o s \o <<LBrace>> : s \in ls}

Replies ==
    {[err |-> FALSE, text |-> tx] : tx \in ReplyTexts}
    \cup {[err |-> TRUE, text |-> tx] : tx \in {<<>>, <<JsonToken(ScenarioB)>>}}


(***************************************************************************)
(* Streamed extraction: _stream_output                                     *)
(* Text is a sequence of one-character strings.                            *)
(***************************************************************************)
\* the flush size: len(buffer) > 80
FlushSize == 80

\* the backquote character, written out
Tick == "tick"
OpenMarker == <<Tick, Tick, Tick, "p", "y", "t", "h", "o", "n">>
CloseMarker == <<Tick, Tick, Tick>>
NL == <<"\n">>
Whitespace == {" ", "\n", "\t"}

\* sub occurs in s at position i
OccursAt(s, sub, i) ==
    /\ i >= 1
    /\ i + Len(sub) - 1 <= Len(s)
    /\ \A k \in 1..Len(sub) : s[i + k - 1] = sub[k]

\* Python:  sub in s
Contains(s, sub) == \E i \in 1..(Len(s) - Len(sub) + 1) : OccursAt(s, sub, i)

\* the position of the first occurrence of sub in s, 0 when there is none
IndexOf(s, sub) ==
    LET I == {i \in 1..(Len(s) - Len(sub) + 1) : OccursAt(s, sub, i)}
    IN IF I = {} THEN 0 ELSE Min(I)

\* s.split(sub)[0]
BeforeFirst(s, sub) ==
    LET i == IndexOf(s, sub) IN IF i = 0 THEN s ELSE SubSeq(s, 1, i - 1)

\* s.split(sub)[1], for s that contains sub
SecondPart(s, sub) ==
    LET i == IndexOf(s, sub)
    IN BeforeFirst(SubSeq(s, i + Len(sub), Len(s)), sub)

\* str.strip()
Strip(s) ==
    LET I == {i \in 1..Len(s) : s[i] \notin Whitespace}
    IN IF I = {} THEN <<>> ELSE SubSeq(s, Min(I), Max(I))

\* the loop body of _stream_output for one fragment; st holds the locals
StreamChunkStep(st, content) ==
    LET buf == st.buffer \o content
        full == st.full_response \o content
    IN IF Contains(buf, NL) \/ Len(buf) > FlushSize
       THEN IF Contains(buf, OpenMarker)
            THEN [st EXCEPT !.full_response = full, !.in_code_block = TRUE,
                            !.buffer = <<>>]
            ELSE IF Contains(buf, CloseMarker) /\ st.in_code_block
            THEN [st EXCEPT !.full_response = full, !.in_code_block = FALSE,
                            !.buffer = <<>>]
            ELSE [st EXCEPT !.full_response = full,
                            !.code_content =
                                IF st.in_code_block THEN st.code_content \o buf
                                ELSE st.code_content,
                            !.buffer = <<>>]
       ELSE [st EXCEPT !.full_response = full, !.buffer = buf]

\* _stream_output after the last fragment: the returned code, <<>> when it raises
StreamFinish(st) ==
    LET collected == IF st.buffer # <<>> /\ st.in_code_block
                     THEN st.code_content \o st.buffer
                     ELSE st.code_content
        code == Strip(collected)
        full_text == st.full_response
    IN IF code # <<>> THEN code
       ELSE IF Contains(full_text, OpenMarker)
            THEN Strip(BeforeFirst(SecondPart(full_text, OpenMarker), CloseMarker))
            ELSE <<>>

StreamStart ==
    [full_response |-> <<>>, code_content |-> <<>>, in_code_block |-> FALSE,
     buffer |-> <<>>]

RECURSIVE StreamAll(_, _)
StreamAll(st, chunks) ==
    IF chunks = <<>> THEN st
    ELSE StreamAll(StreamChunkStep(st, Head(chunks)), Tail(chunks))

\* _stream_output on a whole fragment sequence
_stream_output(chunks) == StreamFinish(StreamAll(StreamStart, chunks))


(***************************************************************************)
(* The responses the extraction is run on                                  *)
(***************************************************************************)
\* the most cut points of a fragmentation (besides character by character)
MaxCuts == 2

LongLine == [i \in 1..(FlushSize + 5) |-> "x"]

\* one well-formed block: the text is pre, the opening marker, inner, the
\* closing marker, post
OneBlock(pre, inner, post) ==
    [kind |-> "one_block",
     chars |-> pre \o OpenMarker \o inner \o CloseMarker \o post,
     inner |-> inner]

\* two well-formed blocks with mid between them; inner is the first one's
TwoBlocks(inner, mid, second) ==
    [kind |-> "two_blocks",
     chars |-> OpenMarker \o inner \o CloseMarker \o mid
               \o OpenMarker \o second \o CloseMarker \o NL,
     inner |-> inner]

StreamTexts ==
    {OneBlock(<<>>, NL \o <<"a">> \o NL \o <<"b">> \o NL \o <<"c">> \o NL, NL),
     OneBlock(<<"h", "i">> \o NL, NL \o <<"a">> \o NL, NL \o <<"o", "k">>),
     OneBlock(<<>>, NL \o <<"a">> \o NL, <<>>),
     OneBlock(<<>>, NL \o LongLine \o NL, NL),
     [kind |-> "no_block", chars |-> <<"n", "o">> \o NL \o <<"c", "o", "d", "e">>,
      inner |-> <<>>],
     [kind |-> "unclosed", chars |-> OpenMarker \o NL \o <<"a">> \o NL,
      inner |-> NL \o <<"a">> \o NL],
     TwoBlocks(NL \o <<"a">> \o NL, NL, NL \o <<"b">> \o NL)}

\* where a response may be cut: anywhere in a short one, around the markers
\* and the flush size in a long one
CutPositions(chars) ==
    IF Len(chars) <= FlushSize THEN 1..(Len(chars) - 1)
    ELSE {i \in 1..(Len(chars) - 1) :
             \/ i <= Len(OpenMarker) + 2
             \/ i >= Len(chars) - Len(CloseMarker) - 2
             \/ i \in (FlushSize - 1)..(FlushSize + 1)}

RECURSIVE SubsetsUpTo(_, _)
SubsetsUpTo(P, k) ==
    IF k = 0 THEN {{}}
    ELSE LET smaller == SubsetsUpTo(P, k - 1)
         IN smaller \cup {s \cup {x} : s \in smaller, x \in P}

RECURSIVE Split(_, _)
Split(chars, cuts) ==
    IF cuts = {} THEN <<chars>>
    ELSE LET c == Max(cuts)
         IN Split(SubSeq(chars, 1, c), cuts \ {c}) \o <<SubSeq(chars, c + 1, Len(chars))>>

Fragmentations(chars) ==
    {Split(chars, cuts) : cuts \in SubsetsUpTo(CutPositions(chars), MaxCuts)}
    \cup {[i \in 1..Len(chars) |-> <<chars[i]>>]}

StreamLocals ==
    [full_response |-> full_response, code_content |-> code_content,
     in_code_block |-> in_code_block, buffer |-> buffer]

StreamIdle ==
    /\ stream_pc = "off"
    /\ stream_text = [kind |-> "none", chars |-> <<>>, inner |-> <<>>]
    /\ stream_chunks = <<>>
    /\ full_response = <<>>
    /\ code_content = <<>>
    /\ in_code_block = FALSE
    /\ buffer = <<>>
    /\ stream_result = <<>>

EvalIdle ==
    /\ eval_pc = "off"
    /\ eval_reply = [err |-> TRUE, text |-> <<>>]
    /\ eval_result = NoneEvaluation

ValidateIdle ==
    /\ validate_pc = "off"
    /\ validate_input = <<>>
    /\ validate_result = FALSE

SharedIdle ==
    /\ instances = <<>>
    /\ root = <<>>
    /\ completed = {}
    /\ last_saved = [by |-> 0]

\* for chunk in response_iterator: one fragment
StreamChunk ==
    /\ stream_pc = "feed"
    /\ stream_chunks # <<>>
    /\ LET st == StreamChunkStep(StreamLocals, Head(stream_chunks))
       IN /\ full_response' = st.full_response
          /\ code_content' = st.code_content
          /\ in_code_block' = st.in_code_block
          /\ buffer' = st.buffer
    /\ stream_chunks' = Tail(stream_chunks)
    /\ UNCHANGED <<stream_pc, stream_text, stream_result>>
    /\ UNCHANGED <<ctl_vars, eval_vars, validate_vars, shared_vars>>

\* the stream ended: the remainder, the whole-text fallback, return or raise
StreamEnd ==
    /\ stream_pc = "feed"
    /\ stream_chunks = <<>>
    /\ LET code == StreamFinish(StreamLocals)
       IN /\ stream_result' = code
          /\ stream_pc' = IF code = <<>> THEN "raised" ELSE "returned"
    /\ UNCHANGED <<stream_text, stream_chunks, full_response, code_content,
                   in_code_block, buffer>>
    /\ UNCHANGED <<ctl_vars, eval_vars, validate_vars, shared_vars>>

\* one call of _evaluate_code
EvaluateCode ==
    /\ eval_pc = "call"
    /\ eval_result' = _evaluate_code(eval_reply)
    /\ eval_pc' = "returned"
    /\ UNCHANGED eval_reply
    /\ UNCHANGED <<ctl_vars, stream_vars, validate_vars, shared_vars>>


(***************************************************************************)
(* The controller: project state, the version store, the loop              *)
(***************************************************************************)
\* the largest max_iterations the model is run with
MaxIterations == 3
\* auto_iterative_development calls followed
MaxRuns == 1
\* validate_and_merge_code calls followed
MaxMerges == 1
\* the largest version number a save may target
MaxVersion == 2
\* loop bodies followed beyond max_iterations
MaxOverrun == 1

\* stop_after_attempt(3)
MaxAttempts == 3

\* generated contents: A passes validate_code, X holds a deny-listed name
Contents == {"A", "X"}
Goal == "goal"

NoFile == "<absent>"
NoCheckpoint ==
    [state |-> "absent", version |-> 0, history |-> <<>>, user_feedback |-> <<>>]
NoDir == [exists |-> FALSE, main |-> NoFile, ckpt |-> NoCheckpoint]

\* A content is a sequence of pieces: a piece is a run of characters that
\* stands for itself ("\n", " ", "n", the two fence markers) or for a well-formed
\* statement built around the word it is named after.
FenceOpen == "fence_python"
FenceClose == "fence"

required_components == {"import", "class", "def", "docstring", "try:", "except"}
dangerous_imports == {"subprocess", "os.system", "eval", "exec"}

\* the searched substrings a piece contains: "docstring" is the marker of
\* three double quotes, "sq_docstring" the one of three single quotes
Holds(piece) ==
    IF piece \in required_components \cup dangerous_imports THEN {piece}
    ELSE IF piece = "evaluate" THEN {"eval"}
    ELSE IF piece = "execute" THEN {"exec"}
    ELSE {}

\* Python:  comp in code
InCode(comp, code) == \E i \in 1..Len(code) : comp \in Holds(code[i])

\* len(code.split('\n'))
LineCount(code) == Cardinality({i \in 1..Len(code) : code[i] = "\n"}) + 1

\* compile(code, '<string>', 'exec') does not raise: no unbalanced bracket, no
\* fence marker left, and the "n" that code[8:] leaves is a line of its own
Compiles(code) ==
    /\ \A i \in 1..Len(code) : code[i] \notin {"(", FenceOpen, FenceClose}
    /\ \A i \in 1..Len(code) :
          code[i] = "n" => (i = Len(code) \/ code[i + 1] = "\n")

\* the removal of the code block markers: code[8:] keeps the last character
\* of the nine of the opening marker
StripMarkers(code) ==
    LET stripped == Strip(code)
        opened == IF stripped # <<>> /\ Head(stripped) = FenceOpen
                  THEN <<"n">> \o Tail(stripped)
                  ELSE stripped
        closed == IF opened # <<>> /\ opened[Len(opened)] = FenceClose
                  THEN SubSeq(opened, 1, Len(opened) - 1)
                  ELSE opened
    IN Strip(closed)

\* validate_code without the security check
validate_code_no_deny_list(code) ==
    IF code = <<>> THEN FALSE
    ELSE LET stripped == StripMarkers(code)
         IN IF LineCount(stripped) < 10 THEN FALSE
            ELSE IF \E comp \in required_components : ~InCode(comp, stripped) THEN FALSE
            ELSE IF ~Compiles(stripped) THEN FALSE
            ELSE TRUE

validate_code(code) ==
    IF code = <<>> THEN FALSE
    ELSE LET stripped == StripMarkers(code)
         IN IF LineCount(stripped) < 10 THEN FALSE
            ELSE IF \E comp \in required_components : ~InCode(comp, stripped) THEN FALSE
            ELSE IF ~Compiles(stripped) THEN FALSE
            ELSE IF \E imp \in dangerous_imports : InCode(imp, stripped) THEN FALSE
            ELSE TRUE

\* the lines of a program that has every required component, then filler
\* lines up to ten lines in all
RECURSIVE JoinLines(_)
JoinLines(lines) ==
    IF lines = <<>> THEN <<>>
    ELSE IF Len(lines) = 1 THEN Head(lines)
    ELSE Head(lines) \o <<"\n">> \o JoinLines(Tail(lines))

CompleteLines ==
    <<<<"docstring">>, <<"import">>, <<"class">>, <<"def">>, <<"try:">>, <<"except">>,
      <<"x">>, <<"x">>, <<"x">>>>

\* the text of a generated content: "" is the empty text
CodeText(content) ==
    IF content = "" THEN <<>>
    ELSE IF content = "A" THEN JoinLines(Append(CompleteLines, <<"x">>))
    ELSE JoinLines(Append(CompleteLines, <<"import", " ", "subprocess">>))

\* the most filler lines of a content given to validate_code
MaxFill == 4

\* the statement a content holds besides the required components
ExtraPieces ==
    dangerous_imports \cup {"evaluate", "execute", "sq_docstring", "(", "x"}

\* how a content is wrapped: bare, in a fenced block, in a fenced block whose
\* first statement follows the opening marker on its line, with a closing
\* marker only
Wrap(kind, code) ==
    IF kind = "bare" THEN code
    ELSE IF kind = "fenced" THEN <<"\n", FenceOpen, "\n">> \o code \o <<"\n", FenceClose, "\n">>
    ELSE IF kind = "fenced_same_line" THEN <<FenceOpen>> \o code \o <<"\n", FenceClose>>
    ELSE code \o <<"\n", FenceClose>>

Filler(k) == [i \in 1..k |-> <<"x">>]

\* the blank line a content may hold between its statements
Blank(blank) == IF blank THEN <<<<>>>> ELSE <<>>

\* the contents validate_code is run on: every required component or all but
\* one, one more statement at the start or at the end, a blank line or none,
\* filler lines
ValidateTexts ==
    {<<>>}
    \cup {Wrap(kind,
               JoinLines(IF first
                         THEN <<<<extra>>>> \o SetToSeq({<<c>> : c \in comps})
                              \o Blank(blank) \o Filler(k)
                         ELSE SetToSeq({<<c>> : c \in comps}) \o Blank(blank)
                              \o Filler(k) \o <<<<extra>>>>)) :
             kind \in {"bare", "fenced", "fenced_same_line", "closing_only"},
             first \in BOOLEAN,
             blank \in BOOLEAN,
             extra \in ExtraPieces,
             comps \in {required_components}
                       \cup {required_components \ {c} : c \in required_components},
             k \in 0..MaxFill}

\* one call of validate_code
ValidateCode ==
    /\ validate_pc = "call"
    /\ validate_result' = validate_code(validate_input)
    /\ validate_pc' = "returned"
    /\ UNCHANGED validate_input
    /\ UNCHANGED <<ctl_vars, eval_vars, stream_vars, shared_vars>>

\* where a save can fail
SaveFailures == {"mkdir", "open_main", "write_main", "hash", "open_ckpt", "dump_ckpt"}

\* _save_current_version with the version number advanced before the writes
_save_current_version_early_bump(ps, fsys, cfg, fm, od, fail) ==
    LET v == ps.version
        dir == fsys[v]
        bumped == [ps EXCEPT !.version = v + 1]
        made == [dir EXCEPT !.exists = TRUE]
        written == [made EXCEPT !.main = ps.current_code]
        checkpoint == [state |-> "ok", version |-> ps.version,
                       history |-> ps.history, user_feedback |-> ps.user_feedback]
    IN IF ~cfg.auto_save \/ ~fm
       THEN [project_state |-> ps, fs |-> fsys, outcome |-> "skipped"]
       ELSE IF ~od
       THEN [project_state |-> ps, fs |-> fsys, outcome |-> "failed"]
       ELSE IF fail = "mkdir"
       THEN [project_state |-> bumped, fs |-> fsys, outcome |-> "failed"]
       ELSE IF fail = "open_main"
       THEN [project_state |-> bumped, fs |-> [fsys EXCEPT ![v] = made],
             outcome |-> "failed"]
       ELSE IF fail = "write_main"
       THEN [project_state |-> bumped,
             fs |-> [fsys EXCEPT ![v] = [made EXCEPT !.main = ""]],
             outcome |-> "failed"]
       ELSE IF fail \in {"hash", "open_ckpt"}
       THEN [project_state |-> bumped, fs |-> [fsys EXCEPT ![v] = written],
             outcome |-> "failed"]
       ELSE IF fail = "dump_ckpt"
       THEN [project_state |-> bumped,
             fs |-> [fsys EXCEPT ![v] = [written EXCEPT !.ckpt.state = "corrupt"]],
             outcome |-> "failed"]
       ELSE [project_state |-> bumped,
             fs |-> [fsys EXCEPT ![v] = [written EXCEPT !.ckpt = checkpoint]],
             outcome |-> "saved"]

\* _save_current_version with the checkpoint built after the version number
\* was advanced
_save_current_version_checkpoint_ahead(ps, fsys, cfg, fm, od, fail) ==
    LET v == ps.version
        dir == fsys[v]
        made == [dir EXCEPT !.exists = TRUE]
        written == [made EXCEPT !.main = ps.current_code]
        checkpoint == [state |-> "ok", version |-> ps.version + 1,
                       history |-> ps.history, user_feedback |-> ps.user_feedback]
    IN IF ~cfg.auto_save \/ ~fm
       THEN [project_state |-> ps, fs |-> fsys, outcome |-> "skipped"]
       ELSE IF ~od
       THEN [project_state |-> ps, fs |-> fsys, outcome |-> "failed"]
       ELSE IF fail = "mkdir"
       THEN [project_state |-> ps, fs |-> fsys, outcome |-> "failed"]
       ELSE IF fail = "open_main"
       THEN [project_state |-> ps, fs |-> [fsys EXCEPT ![v] = made],
             outcome |-> "failed"]
       ELSE IF fail = "write_main"
       THEN [project_state |-> ps, fs |-> [fsys EXCEPT ![v] = [made EXCEPT !.main = ""]],
             outcome |-> "failed"]
       ELSE IF fail \in {"hash", "open_ckpt"}
       THEN [project_state |-> ps, fs |-> [fsys EXCEPT ![v] = written],
             outcome |-> "failed"]
       ELSE IF fail = "dump_ckpt"
       THEN [project_state |-> ps,
             fs |-> [fsys EXCEPT ![v] = [written EXCEPT !.ckpt.state = "corrupt"]],
             outcome |-> "failed"]
       ELSE [project_state |-> [ps EXCEPT !.version = v + 1],
             fs |-> [fsys EXCEPT ![v] = [written EXCEPT !.ckpt = checkpoint]],
             outcome |-> "saved"]

\* _save_current_version without the increment of the version number
_save_current_version_no_increment(ps, fsys, cfg, fm, od, fail) ==
    LET v == ps.version
        dir == fsys[v]
        made == [dir EXCEPT !.exists = TRUE]
        written == [made EXCEPT !.main = ps.current_code]
        checkpoint == [state |-> "ok", version |-> ps.version,
                       history |-> ps.history, user_feedback |-> ps.user_feedback]
    IN IF ~cfg.auto_save \/ ~fm
       THEN [project_state |-> ps, fs |-> fsys, outcome |-> "skipped"]
       ELSE IF ~od
       THEN [project_state |-> ps, fs |-> fsys, outcome |-> "failed"]
       ELSE IF fail = "mkdir"
       THEN [project_state |-> ps, fs |-> fsys, outcome |-> "failed"]
       ELSE IF fail = "open_main"
       THEN [project_state |-> ps, fs |-> [fsys EXCEPT ![v] = made],
             outcome |-> "failed"]
       ELSE IF fail = "write_main"
       THEN [project_state |-> ps, fs |-> [fsys EXCEPT ![v] = [made EXCEPT !.main = ""]],
             outcome |-> "failed"]
       ELSE IF fail \in {"hash", "open_ckpt"}
       THEN [project_state |-> ps, fs |-> [fsys EXCEPT ![v] = written],
             outcome |-> "failed"]
       ELSE IF fail = "dump_ckpt"
       THEN [project_state |-> ps,
             fs |-> [fsys EXCEPT ![v] = [written EXCEPT !.ckpt.state = "corrupt"]],
             outcome |-> "failed"]
       ELSE [project_state |-> ps,
             fs |-> [fsys EXCEPT ![v] = [written EXCEPT !.ckpt = checkpoint]],
             outcome |-> "saved"]

\* _save_current_version; fail names the step that raises, "none" when none does
_save_current_version(ps, fsys, cfg, fm, od, fail) ==
    LET v == ps.version
        dir == fsys[v]
        made == [dir EXCEPT !.exists = TRUE]
        written == [made EXCEPT !.main = ps.current_code]
        checkpoint == [state |-> "ok", version |-> ps.version,
                       history |-> ps.history, user_feedback |-> ps.user_feedback]
    IN IF ~cfg.auto_save \/ ~fm
       THEN [project_state |-> ps, fs |-> fsys, outcome |-> "skipped"]
       ELSE IF ~od
       THEN [project_state |-> ps, fs |-> fsys, outcome |-> "failed"]
       ELSE IF fail = "mkdir"
       THEN [project_state |-> ps, fs |-> fsys, outcome |-> "failed"]
       ELSE IF fail = "open_main"
       THEN [project_state |-> ps, fs |-> [fsys EXCEPT ![v] = made],
             outcome |-> "failed"]
       ELSE IF fail = "write_main"
       THEN [project_state |-> ps, fs |-> [fsys EXCEPT ![v] = [made EXCEPT !.main = ""]],
             outcome |-> "failed"]
       ELSE IF fail \in {"hash", "open_ckpt"}
       THEN [project_state |-> ps, fs |-> [fsys EXCEPT ![v] = written],
             outcome |-> "failed"]
       ELSE IF fail = "dump_ckpt"
       THEN [project_state |-> ps,
             fs |-> [fsys EXCEPT ![v] = [written EXCEPT !.ckpt.state = "corrupt"]],
             outcome |-> "failed"]
       ELSE [project_state |-> [ps EXCEPT !.version = v + 1],
             fs |-> [fsys EXCEPT ![v] = [written EXCEPT !.ckpt = checkpoint]],
             outcome |-> "saved"]

\* _apply_improvements without the validation
_apply_improvements_unchecked(suggestions) == suggestions

\* _apply_improvements: the improved code, "" for None
_apply_improvements(suggestions) ==
    IF suggestions = "" THEN ""
    ELSE IF validate_code(CodeText(suggestions)) THEN suggestions
    ELSE ""

\* validate_and_merge_code: the new project state
validate_and_merge_code(ps, new_code) ==
    IF validate_code(CodeText(new_code))
    THEN [ps EXCEPT !.history = Append(ps.history, ps.current_code),
                    !.current_code = new_code,
                    !.version = ps.version + 1]
    ELSE ps

\* a content with carriage-return line ends ("a", CR, LF, "b") and the same
\* content with plain line ends
CrLfContent == "R"
LfContent == "N"

\* the contents a main file can hold
StoredContents == Contents \cup {"", CrLfContent, LfContent}

\* the characters of a content, as far as its line ends go
TextOf(content) ==
    IF content = CrLfContent THEN <<"a", "\r", "\n", "b">>
    ELSE IF content = LfContent THEN <<"a", "\n", "b">>
    ELSE CodeText(content)

\* the content that has the characters chars
ContentOf(chars) == CHOOSE c \in StoredContents : TextOf(c) = chars

\* text-mode reading (open(..., 'r') with the default newline=None): "\r\n"
\* and a lone "\r" are both read as "\n"
RECURSIVE universal_newlines(_)
universal_newlines(chars) ==
    IF chars = <<>> THEN <<>>
    ELSE IF Head(chars) = "\r"
    THEN <<"\n">> \o universal_newlines(IF Len(chars) >= 2 /\ chars[2] = "\n"
                                         THEN Tail(Tail(chars))
                                         ELSE Tail(chars))
    ELSE <<Head(chars)>> \o universal_newlines(Tail(chars))

\* f.read() of a main file that f.write(current_code) wrote; the write keeps
\* every character where os.linesep is "\n"
ReadMainFile(main) == ContentOf(universal_newlines(TextOf(main)))

\* the numbers N of the directories v<N> of the root
VersionDirs(fsys) == {n \in DOMAIN fsys : fsys[n].exists}

\* the decimal digits of a directory number below 100
Digits(n) == IF n < 10 THEN <<n>> ELSE <<n \div 10, n % 10>>

\* the order of the names v<a>, v<b> as strings
NameLeq(a, b) ==
    LET x == Digits(a)
        y == Digits(b)
    IN IF x[1] # y[1] THEN x[1] < y[1]
       ELSE IF Len(x) # Len(y) THEN Len(x) < Len(y)
       ELSE x[Len(x)] <= y[Len(y)]

\* load_existing_project with the directories sorted by name
load_existing_project_by_name(ps, fsys, fm, od, path_exists, init_ok) ==
    LET unchanged == [project_state |-> ps, file_manager |-> fm, output_dir |-> od,
                      ret |-> "False"]
        initialised == [unchanged EXCEPT !.output_dir = TRUE,
                                         !.file_manager = IF init_ok THEN TRUE ELSE fm]
        versions == VersionDirs(fsys)
        latest_version == CHOOSE n \in versions : \A m \in versions : NameLeq(m, n)
        latest == fsys[latest_version]
        checkpoint == latest.ckpt
        version == IF checkpoint.state = "ok" THEN checkpoint.version ELSE latest_version
        restored == IF checkpoint.state = "ok"
                    THEN [ps EXCEPT !.history = checkpoint.history,
                                    !.user_feedback = checkpoint.user_feedback]
                    ELSE ps
    IN IF ~path_exists THEN unchanged
       ELSE IF ~init_ok THEN initialised
       ELSE IF versions = {} THEN initialised
       ELSE IF latest.main = NoFile THEN initialised
       ELSE IF checkpoint.state = "corrupt" THEN initialised
       ELSE [initialised EXCEPT
                !.project_state = [restored EXCEPT
                                      !.current_code = ReadMainFile(latest.main),
                                      !.version = version + 1],
                !.ret = "True"]

\* load_existing_project: path_exists says the project directory exists,
\* init_ok that init_file_manager succeeds
load_existing_project(ps, fsys, fm, od, path_exists, init_ok) ==
    LET unchanged == [project_state |-> ps, file_manager |-> fm, output_dir |-> od,
                      ret |-> "False"]
        initialised == [unchanged EXCEPT !.output_dir = TRUE,
                                         !.file_manager = IF init_ok THEN TRUE ELSE fm]
        versions == VersionDirs(fsys)
        latest_version == Max(versions)
        latest == fsys[latest_version]
        checkpoint == latest.ckpt
        version == IF checkpoint.state = "ok" THEN checkpoint.version ELSE latest_version
        restored == IF checkpoint.state = "ok"
                    THEN [ps EXCEPT !.history = checkpoint.history,
                                    !.user_feedback = checkpoint.user_feedback]
                    ELSE ps
    IN IF ~path_exists THEN unchanged
       ELSE IF ~init_ok THEN initialised
       ELSE IF versions = {} THEN initialised
       ELSE IF latest.main = NoFile THEN initialised
       ELSE IF checkpoint.state = "corrupt" THEN initialised
       ELSE [initialised EXCEPT
                !.project_state = [restored EXCEPT
                                      !.current_code = ReadMainFile(latest.main),
                                      !.version = version + 1],
                !.ret = "True"]

\* the largest directory number of a root that is loaded
MaxDir == 10
\* the most version directories of a root that is loaded
MaxDirs == 2

\* what a directory v<n> can hold: a complete version, or what a save that
\* failed after mkdir left behind
DirKinds == {"complete_A", "complete_X", "no_main", "empty_main", "no_checkpoint",
             "corrupt_checkpoint"}

DirState(n, kind) ==
    IF kind \in {"complete_A", "complete_X"}
    THEN [exists |-> TRUE, main |-> IF kind = "complete_A" THEN "A" ELSE "X",
          ckpt |-> [state |-> "ok", version |-> n, history |-> <<>>,
                    user_feedback |-> <<Goal>>]]
    ELSE IF kind = "no_main" THEN [NoDir EXCEPT !.exists = TRUE]
    ELSE IF kind = "empty_main" THEN [NoDir EXCEPT !.exists = TRUE, !.main = ""]
    ELSE IF kind = "no_checkpoint" THEN [NoDir EXCEPT !.exists = TRUE, !.main = "A"]
    ELSE [NoDir EXCEPT !.exists = TRUE, !.main = "A", !.ckpt.state = "corrupt"]

\* a root load_existing_project is run on: the directories numbered in D,
\* gaps in the numbering allowed
LoadRoot(D, kinds) ==
    [n \in 0..MaxDir |-> IF n \in D THEN DirState(n, kinds[n]) ELSE NoDir]

\* one call of load_existing_project
LoadExistingProject(path_exists, init_ok) ==
    /\ pc = "load"
    /\ LET r == load_existing_project(project_state, fs, file_manager, output_dir,
                                      path_exists, init_ok)
       IN /\ project_state' = r.project_state
          /\ file_manager' = r.file_manager
          /\ output_dir' = r.output_dir
          /\ load_ret' = r.ret
    /\ pc' = "loaded"
    /\ UNCHANGED <<ret, config, iteration_count, attempt, evaluation, fs, saves,
                   merges, steps, runs, last_save, api_error, improvements, attempted>>
    /\ UNCHANGED <<eval_vars, stream_vars, validate_vars, shared_vars>>

\* the replies the loop's evaluations are run on
LoopReplies ==
    {[err |-> FALSE, text |-> <<JsonToken(ScenarioB)>>],
     [err |-> FALSE,
      text |-> <<JsonToken([ScenarioB EXCEPT !.keys = required_keys \cup {"score"},
                                             !.score = 9 * Tenth,
                                             !.total_score = 5 * Tenth])>>],
     [err |-> FALSE,
      text |-> <<JsonToken([ScenarioB EXCEPT !.keys = required_keys \cup {"score"},
                                             !.score = 5 * Tenth,
                                             !.total_score = 9 * Tenth])>>],
     [err |-> FALSE,
      text |-> <<[t |-> "line", label |-> {"zh_structure"}, sep |-> ":",
                  val |-> 6 * Tenth]>>],
     [err |-> TRUE, text |-> <<>>]}

\* the while test: back into the body or on to the final evaluation
AfterIteration(count) == IF count < config.max_iterations THEN "loop" ELSE "final"

\* except Exception in the loop: continue while iterations remain, else break
AfterException == IF iteration_count < config.max_iterations - 1 THEN "loop" ELSE "final"

NoSave == [outcome |-> "none", target |-> 0, step |-> "none"]

\* no _get_improvement_suggestions call was made in this iteration
NoImprovements == "<none>"

\* the exceptions an attempt of call_ai_api ends with: ValueError is the
\* "No code block found in response" of _stream_output, RequestException a
\* transport failure, APIError an error of the client library
ApiErrors == {"ValueError", "RequestException", "APIError"}

\* retry_if_exception_type((RequestException, JSONDecodeError, ValueError))
RetriedTypes == {"RequestException", "JSONDecodeError", "ValueError"}

\* the decorator with the stop moved one attempt later
retry_one_more(attempt_number, exc) ==
    exc \in RetriedTypes /\ attempt_number < MaxAttempts + 1

\* the @retry decorator of call_ai_api: another attempt follows the failure
\* exc of attempt attempt_number
retry(attempt_number, exc) ==
    exc \in RetriedTypes /\ attempt_number < MaxAttempts

CtlInit ==
    /\ pc = "idle"
    /\ ret = "none"
    /\ file_manager = FALSE
    /\ output_dir = FALSE
    /\ config \in [max_iterations : 1..MaxIterations,
                   min_improvement_score : {7 * Tenth},
                   auto_save : BOOLEAN]
    /\ project_state = [current_code |-> "", version |-> 0, history |-> <<>>,
                        user_feedback |-> <<>>]
    /\ iteration_count = 0
    /\ attempt = 0
    /\ evaluation = NoneEvaluation
    /\ fs = [n \in 0..MaxVersion |-> NoDir]
    /\ saves = 0
    /\ merges = 0
    /\ steps = 0
    /\ runs = 0
    /\ last_save = NoSave
    /\ api_error = "none"
    /\ improvements = NoImprovements
    /\ attempted = {}
    /\ load_ret = "none"

\* init_file_manager: init_paths sets OUTPUT_DIR, then the file manager is built
InitFileManager(ok) ==
    /\ pc = "idle"
    /\ output_dir' = TRUE
    /\ file_manager' = IF ok THEN TRUE ELSE file_manager
    /\ last_save' = NoSave
    /\ UNCHANGED <<pc, ret, config, project_state, iteration_count, attempt,
                   evaluation, fs, saves, merges, steps, runs, api_error,
                   improvements, attempted>>
    /\ UNCHANGED <<load_ret, eval_vars, stream_vars, validate_vars, shared_vars>>

\* auto_iterative_development with the goal recorded before the file manager
\* is tested
StartRun_feedback_first ==
    /\ pc = "idle"
    /\ runs < MaxRuns
    /\ runs' = runs + 1
    /\ last_save' = NoSave
    /\ project_state' = [project_state EXCEPT !.user_feedback = Append(@, Goal)]
    /\ IF ~file_manager
       THEN /\ ret' = "None"
            /\ UNCHANGED <<pc, iteration_count, steps, evaluation>>
       ELSE /\ ret' = "running"
            /\ iteration_count' = 0
            /\ steps' = 0
            /\ evaluation' = NoneEvaluation
            /\ pc' = AfterIteration(0)
    /\ UNCHANGED <<file_manager, output_dir, config, attempt, fs, saves, merges,
                   api_error, improvements, attempted>>
    /\ UNCHANGED <<load_ret, eval_vars, stream_vars, validate_vars, shared_vars>>

\* auto_iterative_development up to the loop
StartRun ==
    /\ pc = "idle"
    /\ runs < MaxRuns
    /\ runs' = runs + 1
    /\ last_save' = NoSave
    /\ IF ~file_manager
       THEN /\ ret' = "None"
            /\ UNCHANGED <<pc, project_state, iteration_count, steps, evaluation>>
       ELSE /\ ret' = "running"
            /\ project_state' =
                   [project_state EXCEPT !.user_feedback = Append(@, Goal)]
            /\ iteration_count' = 0
            /\ steps' = 0
            /\ evaluation' = NoneEvaluation
            /\ pc' = AfterIteration(0)
    /\ UNCHANGED <<file_manager, output_dir, config, attempt, fs, saves, merges,
                   api_error, improvements, attempted>>
    /\ UNCHANGED <<load_ret, eval_vars, stream_vars, validate_vars, shared_vars>>

\* the save made inside an iteration, after current_code was replaced
SaveInLoop(code, fail) ==
    LET r == _save_current_version([project_state EXCEPT !.current_code = code],
                                   fs, config, file_manager, output_dir, fail)
    IN /\ project_state' = r.project_state
       /\ fs' = r.fs
       /\ saves' = IF r.outcome = "saved" THEN saves + 1 ELSE saves
       /\ last_save' = [outcome |-> r.outcome, target |-> project_state.version,
                        step |-> IF r.outcome = "failed" THEN fail ELSE "none"]
       /\ attempted' = IF r.outcome \in {"saved", "failed"}
                       THEN attempted \cup {[target |-> project_state.version,
                                              outcome |-> r.outcome]}
                       ELSE attempted

\* iteration 0 enters call_ai_api
BeginGenerate ==
    /\ pc = "loop"
    /\ iteration_count = 0
    /\ steps < config.max_iterations + MaxOverrun
    /\ steps' = steps + 1
    /\ pc' = "call_api"
    /\ attempt' = 1
    /\ api_error' = "none"
    /\ last_save' = NoSave
    /\ UNCHANGED <<ret, file_manager, output_dir, config, project_state,
                   iteration_count, evaluation, fs, saves, merges, runs,
                   improvements, attempted>>
    /\ UNCHANGED <<load_ret, eval_vars, stream_vars, validate_vars, shared_vars>>

\* an attempt of call_ai_api returns the extracted code; the rest of iteration 0
CallAiApiReturn(initial_response, fail) ==
    /\ pc = "call_api"
    /\ project_state.version <= MaxVersion
    /\ attempt' = 0
    /\ api_error' = "none"
    /\ UNCHANGED improvements
    /\ IF initial_response # ""
       THEN /\ SaveInLoop(initial_response, fail)
            /\ iteration_count' = iteration_count + 1
            /\ pc' = AfterIteration(iteration_count + 1)
            /\ UNCHANGED <<ret, steps>>
       ELSE /\ ret' = "False"
            /\ pc' = "idle"
            /\ last_save' = NoSave
            /\ iteration_count' = 0
            /\ steps' = 0
            /\ UNCHANGED <<project_state, fs, saves, attempted>>
    /\ UNCHANGED <<file_manager, output_dir, config, evaluation, merges, runs>>
    /\ UNCHANGED <<load_ret, eval_vars, stream_vars, validate_vars, shared_vars>>

\* an attempt fails with exc and the decorator starts another attempt
CallAiApiRetry(exc) ==
    /\ pc = "call_api"
    /\ retry(attempt, exc)
    /\ attempt' = attempt + 1
    /\ api_error' = exc
    /\ last_save' = NoSave
    /\ UNCHANGED <<pc, ret, file_manager, output_dir, config, project_state,
                   iteration_count, evaluation, fs, saves, merges, steps, runs,
                   improvements, attempted>>
    /\ UNCHANGED <<load_ret, eval_vars, stream_vars, validate_vars, shared_vars>>

\* an attempt fails with exc and the decorator re-raises it: the loop's except
\* clause handles it
CallAiApiRaise(exc) ==
    /\ pc = "call_api"
    /\ ~retry(attempt, exc)
    /\ api_error' = exc
    /\ pc' = AfterException
    /\ last_save' = NoSave
    /\ UNCHANGED <<ret, file_manager, output_dir, config, project_state,
                   iteration_count, attempt, evaluation, fs, saves, merges, steps,
                   runs, improvements, attempted>>
    /\ UNCHANGED <<load_ret, eval_vars, stream_vars, validate_vars, shared_vars>>

\* an iteration after the first, up to the request for improvements
Evaluate(reply) ==
    /\ pc = "loop"
    /\ iteration_count > 0
    /\ steps < config.max_iterations + MaxOverrun
    /\ steps' = steps + 1
    /\ last_save' = NoSave
    /\ LET ev == _evaluate_code(reply)
       IN /\ evaluation' = ev
          /\ IF ev.kind = "none"
             THEN /\ iteration_count' = iteration_count + 1
                  /\ pc' = AfterIteration(iteration_count + 1)
             ELSE IF "score" \notin ev.keys
             THEN /\ pc' = AfterException
                  /\ UNCHANGED iteration_count
             ELSE IF ev.score >= config.min_improvement_score
             THEN /\ pc' = "final"
                  /\ UNCHANGED iteration_count
             ELSE /\ pc' = "improve"
                  /\ UNCHANGED iteration_count
    /\ improvements' = NoImprovements
    /\ UNCHANGED <<ret, file_manager, output_dir, config, project_state, attempt,
                   fs, saves, merges, runs, api_error, attempted>>
    /\ UNCHANGED <<load_ret, eval_vars, stream_vars, validate_vars, shared_vars>>

\* _get_improvement_suggestions and _apply_improvements, the save, the count;
\* suggestions is what _get_improvement_suggestions returned, "" for None
Improve(suggestions, fail) ==
    /\ pc = "improve"
    /\ project_state.version <= MaxVersion
    /\ improvements' = suggestions
    /\ LET improved_code == _apply_improvements(suggestions)
       IN IF suggestions # "" /\ improved_code # ""
          THEN SaveInLoop(improved_code, fail)
          ELSE /\ last_save' = NoSave
               /\ UNCHANGED <<project_state, fs, saves, attempted>>
    /\ iteration_count' = iteration_count + 1
    /\ pc' = AfterIteration(iteration_count + 1)
    /\ evaluation' = NoneEvaluation
    /\ UNCHANGED <<ret, file_manager, output_dir, config, attempt, merges, steps,
                   runs, api_error>>
    /\ UNCHANGED <<load_ret, eval_vars, stream_vars, validate_vars, shared_vars>>

\* after the loop: the final evaluation and the return
FinalEvaluate(reply) ==
    /\ pc = "final"
    /\ LET final_evaluation == _evaluate_code(reply)
       IN /\ ret' = IF final_evaluation.kind # "none"
                       /\ "score" \notin final_evaluation.keys
                    THEN "KeyError"
                    ELSE "True"
          /\ evaluation' = final_evaluation
    /\ pc' = "idle"
    /\ attempt' = 0
    /\ api_error' = "none"
    /\ improvements' = NoImprovements
    /\ iteration_count' = 0
    /\ steps' = 0
    /\ last_save' = NoSave
    /\ UNCHANGED <<file_manager, output_dir, config, project_state, fs, saves,
                   merges, runs, attempted>>
    /\ UNCHANGED <<load_ret, eval_vars, stream_vars, validate_vars, shared_vars>>

\* a call of validate_and_merge_code between runs
ValidateAndMergeCode(new_code) ==
    /\ pc = "idle"
    /\ merges < MaxMerges
    /\ project_state.version <= MaxVersion
    /\ project_state' = validate_and_merge_code(project_state, new_code)
    /\ merges' = IF validate_code(CodeText(new_code)) THEN merges + 1 ELSE merges
    /\ last_save' = NoSave
    /\ UNCHANGED <<pc, ret, file_manager, output_dir, config, iteration_count,
                   attempt, evaluation, fs, saves, steps, runs, api_error,
                   improvements, attempted>>
    /\ UNCHANGED <<load_ret, eval_vars, stream_vars, validate_vars, shared_vars>>

(***************************************************************************)
(* Controller instances sharing one root.  _save_current_version is taken  *)
(* one file-system call at a time, so that the calls of two instances can  *)
(* interleave; each directory records which instance wrote its files.      *)
(***************************************************************************)
\* the controller instances (processes) started on the root
Instances == {1, 2}

\* contents an instance accepts in a run
MaxAccepts == 2
\* load_existing_project calls of an instance
MaxLoads == 1
\* the largest version number a save of an instance may target
MaxRoot == 2

\* what a run generates
SharedContents == {"A", CrLfContent}

NoSharedDir ==
    [exists |-> FALSE, main |-> NoFile, ckpt |-> NoCheckpoint, main_by |-> 0,
     ckpt_by |-> 0]

\* a controller as __init__ leaves it, with init_file_manager done on the root
FreshInstance ==
    [pc |-> "idle",
     project_state |-> [current_code |-> "", version |-> 0, history |-> <<>>,
                        user_feedback |-> <<>>],
     running |-> FALSE, accepts |-> 0, loads |-> 0]

NoneSaved == [by |-> 0]

\* the version directory instance i is saving to
Target(i) == instances[i].project_state.version

\* auto_iterative_development of instance i up to the loop
SharedStartRun(i) ==
    /\ instances[i].pc = "idle"
    /\ ~instances[i].running
    /\ instances' = [instances EXCEPT
                        ![i].running = TRUE,
                        ![i].project_state.user_feedback = Append(@, Goal)]
    /\ UNCHANGED <<root, completed, last_saved>>
    /\ UNCHANGED <<ctl_vars, eval_vars, stream_vars, validate_vars>>

\* the loop of instance i replaces current_code and enters
\* _save_current_version (auto_save on, file manager and OUTPUT_DIR set)
SharedAccept(i, c) ==
    /\ instances[i].pc = "idle"
    /\ instances[i].running
    /\ instances[i].accepts < MaxAccepts
    /\ Target(i) <= MaxRoot
    /\ instances' = [instances EXCEPT ![i].pc = "mkdir",
                                      ![i].accepts = @ + 1,
                                      ![i].project_state.current_code = c]
    /\ UNCHANGED <<root, completed, last_saved>>
    /\ UNCHANGED <<ctl_vars, eval_vars, stream_vars, validate_vars>>

\* version_dir.mkdir(exist_ok=True)
SaveMkdir(i, fail) ==
    /\ instances[i].pc = "mkdir"
    /\ IF fail
       THEN /\ instances' = [instances EXCEPT ![i].pc = "idle"]
            /\ UNCHANGED <<root, last_saved>>
       ELSE /\ instances' = [instances EXCEPT ![i].pc = "write_main"]
            /\ root' = [root EXCEPT ![Target(i)].exists = TRUE]
            /\ last_saved' = NoneSaved
    /\ UNCHANGED completed
    /\ UNCHANGED <<ctl_vars, eval_vars, stream_vars, validate_vars>>

\* open(main_file, 'w') and f.write(current_code); fail names the call that
\* raises
SaveWriteMain(i, fail) ==
    /\ instances[i].pc = "write_main"
    /\ IF fail = "open_main"
       THEN /\ instances' = [instances EXCEPT ![i].pc = "idle"]
            /\ UNCHANGED <<root, last_saved>>
       ELSE /\ instances' = [instances EXCEPT
                               ![i].pc = IF fail = "none" THEN "write_ckpt" ELSE "idle"]
            /\ root' = [root EXCEPT
                          ![Target(i)].main =
                              IF fail = "none"
                              THEN instances[i].project_state.current_code
                              ELSE "",
                          ![Target(i)].main_by = i]
            /\ last_saved' = NoneSaved
    /\ UNCHANGED completed
    /\ UNCHANGED <<ctl_vars, eval_vars, stream_vars, validate_vars>>

\* the hash, open(checkpoint_file, 'w'), json.dump and version += 1
SaveWriteCheckpoint(i, fail) ==
    /\ instances[i].pc = "write_ckpt"
    /\ LET ps == instances[i].project_state
           checkpoint == [state |-> "ok", version |-> ps.version,
                          history |-> ps.history, user_feedback |-> ps.user_feedback]
       IN IF fail \in {"hash", "open_ckpt"}
          THEN /\ instances' = [instances EXCEPT ![i].pc = "idle"]
               /\ UNCHANGED <<root, completed, last_saved>>
          ELSE IF fail = "dump_ckpt"
          THEN /\ instances' = [instances EXCEPT ![i].pc = "idle"]
               /\ root' = [root EXCEPT ![Target(i)].ckpt.state = "corrupt",
                                       ![Target(i)].ckpt_by = i]
               /\ last_saved' = NoneSaved
               /\ UNCHANGED completed
          ELSE /\ instances' = [instances EXCEPT
                                  ![i].pc = "idle",
                                  ![i].project_state.version = @ + 1]
               /\ root' = [root EXCEPT ![Target(i)].ckpt = checkpoint,
                                       ![Target(i)].ckpt_by = i]
               /\ completed' = completed \cup {<<i, Target(i)>>}
               /\ last_saved' = [by |-> i, version |-> ps.version,
                                 current_code |-> ps.current_code,
                                 history |-> ps.history,
                                 user_feedback |-> ps.user_feedback]
    /\ UNCHANGED <<ctl_vars, eval_vars, stream_vars, validate_vars>>

\* load_existing_project of instance i on the root
SharedLoad(i) ==
    /\ instances[i].pc = "idle"
    /\ instances[i].loads < MaxLoads
    /\ LET r == load_existing_project(instances[i].project_state, root,
                                      TRUE, TRUE, TRUE, TRUE)
       IN instances' = [instances EXCEPT ![i].loads = @ + 1,
                                         ![i].project_state = r.project_state]
    /\ UNCHANGED <<root, completed, last_saved>>
    /\ UNCHANGED <<ctl_vars, eval_vars, stream_vars, validate_vars>>

(***************************************************************************)
(* The specifications                                                      *)
(***************************************************************************)
Init == CtlInit /\ EvalIdle /\ StreamIdle /\ ValidateIdle /\ SharedIdle

Next ==
    \/ \E ok \in BOOLEAN : InitFileManager(ok)
    \/ StartRun
    \/ BeginGenerate
    \/ \E c \in Contents, fail \in SaveFailures \cup {"none"} : CallAiApiReturn(c, fail)
    \/ \E exc \in ApiErrors : CallAiApiRetry(exc)
    \/ \E exc \in ApiErrors : CallAiApiRaise(exc)
    \/ \E reply \in LoopReplies : Evaluate(reply)
    \/ \E c \in Contents \cup {""}, fail \in SaveFailures \cup {"none"} : Improve(c, fail)
    \/ \E reply \in LoopReplies : FinalEvaluate(reply)
    \/ \E c \in Contents : ValidateAndMergeCode(c)

Spec == Init /\ [][Next]_vars

CtlIdle ==
    /\ pc = "off"
    /\ ret = "none"
    /\ file_manager = FALSE
    /\ output_dir = FALSE
    /\ config = [max_iterations |-> 1, min_improvement_score |-> 7 * Tenth,
                 auto_save |-> TRUE]
    /\ project_state = [current_code |-> "", version |-> 0, history |-> <<>>,
                        user_feedback |-> <<>>]
    /\ iteration_count = 0
    /\ attempt = 0
    /\ evaluation = NoneEvaluation
    /\ fs = [n \in 0..MaxVersion |-> NoDir]
    /\ saves = 0
    /\ merges = 0
    /\ steps = 0
    /\ runs = 0
    /\ last_save = NoSave
    /\ api_error = "none"
    /\ improvements = NoImprovements
    /\ attempted = {}
    /\ load_ret = "none"

InitEval ==
    /\ CtlIdle
    /\ SharedIdle
    /\ StreamIdle
    /\ ValidateIdle
    /\ eval_pc = "call"
    /\ eval_reply \in Replies
    /\ eval_result = NoneEvaluation

NextEval == EvaluateCode

SpecEval == InitEval /\ [][NextEval]_vars

InitStream ==
    /\ CtlIdle
    /\ SharedIdle
    /\ EvalIdle
    /\ ValidateIdle
    /\ stream_pc = "feed"
    /\ stream_text \in StreamTexts
    /\ stream_chunks \in Fragmentations(stream_text.chars)
    /\ full_response = <<>>
    /\ code_content = <<>>
    /\ in_code_block = FALSE
    /\ buffer = <<>>
    /\ stream_result = <<>>

NextStream == StreamChunk \/ StreamEnd

SpecStream == InitStream /\ [][NextStream]_vars

InitValidate ==
    /\ CtlIdle
    /\ SharedIdle
    /\ EvalIdle
    /\ StreamIdle
    /\ validate_pc = "call"
    /\ validate_input \in ValidateTexts
    /\ validate_result = FALSE

NextValidate == ValidateCode

SpecValidate == InitValidate /\ [][NextValidate]_vars

InitLoad ==
    /\ pc = "load"
    /\ ret = "none"
    /\ file_manager = FALSE
    /\ output_dir = FALSE
    /\ config = [max_iterations |-> 1, min_improvement_score |-> 7 * Tenth,
                 auto_save |-> TRUE]
    /\ project_state = [current_code |-> "", version |-> 0, history |-> <<>>,
                        user_feedback |-> <<>>]
    /\ iteration_count = 0
    /\ attempt = 0
    /\ evaluation = NoneEvaluation
    /\ \E D \in SubsetsUpTo(0..MaxDir, MaxDirs) :
          \E kinds \in [D -> DirKinds] : fs = LoadRoot(D, kinds)
    /\ saves = 0
    /\ merges = 0
    /\ steps = 0
    /\ runs = 0
    /\ last_save = NoSave
    /\ api_error = "none"
    /\ improvements = NoImprovements
    /\ attempted = {}
    /\ load_ret = "none"
    /\ EvalIdle
    /\ StreamIdle
    /\ ValidateIdle
    /\ SharedIdle

NextLoad == \E path_exists \in BOOLEAN, init_ok \in BOOLEAN :
                LoadExistingProject(path_exists, init_ok)

SpecLoad == InitLoad /\ [][NextLoad]_vars

InitShared ==
    /\ CtlIdle
    /\ EvalIdle
    /\ StreamIdle
    /\ ValidateIdle
    /\ instances = [i \in Instances |-> FreshInstance]
    /\ root = [n \in 0..MaxRoot |-> NoSharedDir]
    /\ completed = {}
    /\ last_saved = NoneSaved

NextShared ==
    \E i \in Instances :
       \/ SharedStartRun(i)
       \/ \E c \in SharedContents : SharedAccept(i, c)
       \/ \E fail \in BOOLEAN : SaveMkdir(i, fail)
       \/ \E fail \in {"none", "open_main", "write_main"} : SaveWriteMain(i, fail)
       \/ \E fail \in {"none", "hash", "open_ckpt", "dump_ckpt"} :
             SaveWriteCheckpoint(i, fail)
       \/ SharedLoad(i)

SpecShared == InitShared /\ [][NextShared]_vars


(***************************************************************************)
(* Properties                                                              *)
(***************************************************************************)

\* C1: a call of auto_iterative_development enters the loop body at most
\* max_iterations times, whatever the model calls do.
C1_BoundedIterations == steps <= config.max_iterations

\* C2 as stated: after N successful saves by a fresh controller, with failed
\* saves in between, version = N and the version directories are exactly
\* v0..v(N-1), each with a non-empty main file.
C2_ExactlyNDirectories ==
    merges = 0 =>
        /\ project_state.version = saves
        /\ {n \in 0..MaxVersion : fs[n].exists} = {n \in 0..MaxVersion : n < saves}
        /\ \A n \in 0..MaxVersion : n < saves => fs[n].main \notin {NoFile, ""}

\* C2 amended: after N successful saves by a fresh controller, with failed
\* saves in between, version = N, every directory v0..v(N-1) exists with a
\* non-empty main file and its checkpoint, and no directory beyond vN exists;
\* vN itself may exist, left behind by a failed save.
C2_CompletedDirectories ==
    merges = 0 =>
        /\ project_state.version = saves
        /\ \A n \in 0..MaxVersion :
              /\ n < saves => /\ fs[n].exists
                              /\ fs[n].main \notin {NoFile, ""}
                              /\ fs[n].ckpt.state = "ok"
                              /\ fs[n].ckpt.version = n
              /\ n > saves => ~fs[n].exists

\* two saves succeeded and a later one failed after creating its directory
C2_LeftoverDirectory ==
    /\ merges = 0
    /\ saves = 2
    /\ fs[2].exists
    /\ fs[2].ckpt.state # "ok"

\* C3: project_state.version equals the number of successful saves so far.
C3_VersionCountsSaves == project_state.version = saves

\* C4: a save that fails, at whichever step, leaves the version counter as it
\* was: the counter still names the directory the failed save targeted, which
\* is the one the next save writes to.
C4_FailedSaveKeepsVersion ==
    [][last_save'.outcome = "failed" =>
          /\ project_state'.version = project_state.version
          /\ last_save'.target = project_state'.version]_vars

\* a save failed at the checkpoint write, after an earlier save had succeeded
C4_FailedAfterSuccess ==
    /\ last_save.outcome = "failed"
    /\ last_save.step = "dump_ckpt"
    /\ saves >= 1
    /\ fs[last_save.target].ckpt.state = "corrupt"

\* C5: for a response with exactly one well-formed block with inner content
\* C, _stream_output returns C however the response is cut into fragments.
C5_SameForEveryFragmentation ==
    (stream_pc \in {"returned", "raised"} /\ stream_text.kind = "one_block") =>
        /\ stream_pc = "returned"
        /\ stream_result = Strip(stream_text.inner)

\* C6: in an iteration after the first, a report whose total_score reaches
\* min_improvement_score ends the loop at that iteration: no improvement is
\* requested, nothing is saved, no further iteration runs.
C6_ThresholdEndsLoop ==
    [][(/\ pc = "loop"
        /\ iteration_count > 0
        /\ steps' = steps + 1
        /\ evaluation'.kind = "report"
        /\ evaluation'.total_score >= config.min_improvement_score)
       => (/\ pc' = "final"
           /\ project_state' = project_state
           /\ fs' = fs)]_vars

\* C7: _evaluate_code gives its caller a report for every reply, never None.
C7_AlwaysAReport == eval_pc = "returned" => eval_result.kind = "report"

\* the text from the first opening brace to the last closing brace is not
\* one JSON object
NotAJsonObject(text) ==
    ~(\E i \in 1..Len(text) :
         /\ text[i].t = "json"
         /\ \A k \in 1..Len(text) : k # i => text[k].t = "line")

\* the dimensions of the label-separator-score lines of a text
RecognisedDimensions(text) ==
    LET lines == TextLines(text)
    IN {Classify(lines[k].label) :
           k \in {n \in 1..Len(lines) :
                     /\ lines[n].sep \in {":", "fullwidth_colon", "="}
                     /\ ScoreMatches(lines[n].val)}}
       \ {"unrecognised"}

\* C8: a reply that is not a JSON object (or has no braces at all) but has a
\* recognised score line gives the fallback report: the recognised dimensions
\* and their mean.
C8_FallbackReport ==
    (/\ eval_pc = "returned"
     /\ ~eval_reply.err
     /\ NotAJsonObject(eval_reply.text)
     /\ RecognisedDimensions(eval_reply.text) # {})
    => (/\ eval_result.kind = "report"
        /\ DOMAIN eval_result.scores = RecognisedDimensions(eval_reply.text)
        /\ eval_result.total_score * Cardinality(DOMAIN eval_result.scores)
              = SumOver(eval_result.scores, DOMAIN eval_result.scores))

\* C9: every report _evaluate_code returns has all its scores and its
\* total_score within [0,1].
C9_ScoresWithinUnitInterval ==
    (eval_pc = "returned" /\ eval_result.kind = "report") =>
        /\ \A d \in DOMAIN eval_result.scores :
              0 <= eval_result.scores[d] /\ eval_result.scores[d] <= One
        /\ 0 <= eval_result.total_score /\ eval_result.total_score <= One

\* a structured report with a score on the upper boundary and an extra dimension
C9_BoundaryReport ==
    /\ eval_pc = "returned"
    /\ eval_result.path = "json"
    /\ eval_result.total_score = One
    /\ "security" \in DOMAIN eval_result.scores

\* C10 as stated: a report from the structured-JSON path has total_score
\* equal to the mean of its five canonical scores.
C10_TotalIsMean ==
    (eval_pc = "returned" /\ eval_result.path = "json") =>
        5 * eval_result.total_score = SumOver(eval_result.scores, required_scores)

\* C10 amended: a report from the structured-JSON path carries the scores and
\* the total_score of the reply unchanged; the total_score lies in [0,1] and
\* is not recomputed, so it is the mean only when the reply's own value was.
C10_TotalIsVerbatim ==
    (eval_pc = "returned" /\ eval_result.path = "json") =>
        LET data == eval_reply.text[Find(eval_reply.text) + 1].obj
        IN /\ eval_result.total_score = data.total_score
           /\ eval_result.scores = data.scores
           /\ 0 <= eval_result.total_score /\ eval_result.total_score <= One

\* a structured report was returned whose total_score is not the mean
C10_NotTheMean ==
    /\ eval_pc = "returned"
    /\ eval_result.path = "json"
    /\ 5 * eval_result.total_score # SumOver(eval_result.scores, required_scores)


\* C11: when at iteration 0 no content can be extracted from the generation
\* response, the call ends at once and returns False, with no save.
C11_NoContentReturnsFalse ==
    (api_error = "ValueError" /\ pc # "call_api") =>
        /\ pc = "idle"
        /\ ret = "False"
        /\ last_save = NoSave

\* the candidate of an improvement step is absent or fails validate_code
Rejected(candidate) == candidate = "" \/ ~validate_code(CodeText(candidate))

\* C12: in an iteration after the first whose candidate is absent or is
\* rejected by validate_code, current_code, version and the version
\* directories stay as they were and the loop goes on to the next index.
C12_RejectedCandidateKeepsState ==
    [][(pc = "improve" /\ iteration_count > 0 /\ Rejected(improvements')) =>
          /\ project_state' = project_state
          /\ fs' = fs
          /\ iteration_count' = iteration_count + 1
          /\ pc' = IF iteration_count + 1 < config.max_iterations
                   THEN "loop" ELSE "final"]_vars

\* a candidate holding a deny-listed name was rejected after a version was
\* saved, and the loop goes on
C12_RejectedAfterSave ==
    /\ improvements = "X"
    /\ pc = "loop"
    /\ iteration_count = 2
    /\ project_state.current_code = "A"
    /\ fs[0].main = "A"

\* C13: unless the file manager is missing or the final evaluation could not
\* be obtained, a call of auto_iterative_development that has ended gave its
\* caller a boolean and raised nothing, the final evaluation included.
C13_ReturnsBoolean ==
    (pc = "idle" /\ ret \notin {"none", "None"} /\ evaluation.path # "default") =>
        ret \in {"True", "False"}

\* C14: a call of call_ai_api makes at most 3 attempts: a retried failure of
\* attempt 1 or 2 starts the next attempt, any other failure leaves the call,
\* and a successful attempt returns with no further attempt.
C14_AtMostThreeAttempts ==
    [][pc = "call_api" =>
          /\ attempt \in 1..3
          /\ api_error' # "none" =>
                 IF api_error' \in {"RequestException", "JSONDecodeError", "ValueError"}
                    /\ attempt < 3
                 THEN pc' = "call_api" /\ attempt' = attempt + 1
                 ELSE pc' \in {"loop", "final"} /\ attempt' = attempt
          /\ api_error' = "none" => pc' # "call_api" /\ attempt' = 0]_vars

\* the third attempt failed with a retried exception and the failure left the call
C14_ThirdFailureSurfaced ==
    /\ pc \in {"loop", "final"}
    /\ attempt = 3
    /\ api_error = "RequestException"

\* C15: after a successful save of version k, v<k>/main.py holds the
\* current_code of that moment and v<k>/checkpoint.json records version k;
\* the first save of a fresh controller is version 0.
C15_SavedVersionContents ==
    [][last_save'.outcome = "saved" =>
          LET k == last_save'.target
          IN /\ fs'[k].exists
             /\ fs'[k].main = project_state'.current_code
             /\ fs'[k].ckpt.state = "ok"
             /\ fs'[k].ckpt.version = k
             /\ (saves = 0 /\ merges = 0) => k = 0]_vars

\* version 1 was saved with a content other than that of version 0
C15_SecondVersionSaved ==
    /\ last_save.outcome = "saved"
    /\ last_save.target = 1
    /\ fs[1].main = "A"
    /\ fs[0].main = "X"
    /\ fs[1].ckpt.version = 1

\* an exception left a step of the running iteration
Escaped ==
    \/ pc = "call_api" /\ pc' # "call_api" /\ api_error' # "none"
    \/ /\ pc = "loop"
       /\ iteration_count > 0
       /\ pc' \in {"loop", "final"}
       /\ evaluation'.kind = "report"
       /\ "score" \notin evaluation'.keys

\* C19: when an exception leaves a step of iteration i and iterations remain
\* (i < max_iterations - 1) the loop goes on with iteration i + 1; when i is
\* the last allowed iteration the loop ends.
C19_ExceptionAdvancesIndex ==
    [][Escaped =>
          IF iteration_count < config.max_iterations - 1
          THEN pc' = "loop" /\ iteration_count' = iteration_count + 1
          ELSE pc' = "final"]_vars

\* C20 as stated: no version number is the target of two save attempts, not
\* even after a failed one, and the version counter never decreases.
C20_VersionNeverReused ==
    [][/\ last_save'.outcome \in {"saved", "failed"} =>
             last_save'.target \notin {a.target : a \in attempted}
       /\ project_state'.version >= project_state.version]_vars

\* C20 amended: the version counter never decreases and no save attempt
\* targets a version number whose save has succeeded; the number of a failed
\* attempt is the target of the next attempt.
C20_SavedVersionNeverReused ==
    [][/\ last_save'.outcome \in {"saved", "failed"} =>
             /\ [target |-> last_save'.target, outcome |-> "saved"] \notin attempted
             /\ \A a \in attempted : a.target <= last_save'.target
       /\ project_state'.version >= project_state.version]_vars

\* a version number whose first save attempt failed was saved by a later one
C20_SavedAfterFailure ==
    /\ last_save.outcome = "saved"
    /\ [target |-> last_save.target, outcome |-> "failed"] \in attempted
    /\ fs[last_save.target].ckpt.state = "ok"

\* C18: when the stream has ended and the response holds no complete fenced
\* block (no opening marker, or an opening marker that is never closed),
\* _stream_output raises its no-block-found error and returns no content.
C18_NoCompleteBlockRaises ==
    (stream_pc \in {"returned", "raised"} /\ stream_text.kind \in {"no_block", "unclosed"})
        => (stream_pc = "raised" /\ stream_result = <<>>)


\* C17: validate_code returns true only for a content that holds every
\* required token and none of the deny-listed substrings, wherever in the
\* text they are.
C17_AcceptedOnlyIfComplete ==
    (validate_pc = "returned" /\ validate_result) =>
        /\ \A comp \in {"import", "class", "def", "docstring", "try:", "except"} :
              InCode(comp, validate_input)
        /\ \A imp \in {"subprocess", "os.system", "eval", "exec"} :
              ~InCode(imp, validate_input)

\* a complete content inside a fenced block was accepted
C17_AcceptedFencedContent ==
    /\ validate_pc = "returned"
    /\ validate_result
    /\ FenceOpen \in {validate_input[i] : i \in 1..Len(validate_input)}
    /\ validate_input[Len(validate_input)] = "\n"


C21_ValidOrDefault ==
    (eval_pc = "returned" /\ eval_result.kind = "report") =>
        \/ _validate_evaluation_format(eval_result)
        \/ /\ eval_result.scores = _get_default_evaluation.scores
           /\ eval_result.total_score = _get_default_evaluation.total_score
           /\ eval_result.analysis = _get_default_evaluation.analysis

\* C27: for a response with more than one fenced python block, whatever the
\* fragmentation, _stream_output returns the inner text of the first block
\* and nothing of a later block.
C27_FirstBlockOnly ==
    (stream_pc = "returned" /\ stream_text.kind = "two_blocks") =>
        stream_result = Strip(stream_text.inner)

\* the lines of a content: code.split('\n')
RECURSIVE SplitLines(_)
SplitLines(code) ==
    LET I == {i \in 1..Len(code) : code[i] = "\n"}
    IN IF I = {} THEN <<code>>
       ELSE <<SubSeq(code, 1, Min(I) - 1)>>
            \o SplitLines(SubSeq(code, Min(I) + 1, Len(code)))

\* the number of lines of a content that hold more than whitespace
NonEmptyLineCount(code) ==
    LET lines == SplitLines(code)
    IN Cardinality({k \in 1..Len(lines) :
                       \E j \in 1..Len(lines[k]) : lines[k][j] \notin Whitespace})

\* C25: validate_code returns false for every content that has, once the
\* fence markers are stripped, fewer than ten non-empty lines; blank lines do
\* not count.
C25_FewerThanTenNonEmptyLines ==
    (validate_pc = "returned"
     /\ NonEmptyLineCount(StripMarkers(validate_input)) < 10)
    => ~validate_result

\* a content wrapped in a leading and a trailing fence marker
IsFenced(code) ==
    LET stripped == Strip(code)
    IN /\ Len(stripped) >= 2
       /\ Head(stripped) = FenceOpen
       /\ stripped[Len(stripped)] = FenceClose

\* what the two markers of a fenced content enclose
Unfenced(code) ==
    LET stripped == Strip(code) IN SubSeq(stripped, 2, Len(stripped) - 1)

\* C26: validate_code gives a content wrapped in a leading python fence
\* marker and a trailing fence marker the result it gives the content alone.
C26_FenceStrippingExact ==
    (validate_pc = "returned" /\ IsFenced(validate_input)) =>
        validate_result = validate_code(Unfenced(validate_input))

\* C24: when the latest version directory has a main file and its checkpoint
\* is missing or unreadable, load_existing_project succeeds: the version comes
\* from the directory name, history and user_feedback are empty.
C24_LoadsWithoutCheckpoint ==
    (pc = "loaded" /\ file_manager /\ VersionDirs(fs) # {}) =>
        LET N == Max(VersionDirs(fs))
        IN (fs[N].main # NoFile /\ fs[N].ckpt.state \in {"absent", "corrupt"}) =>
              /\ load_ret = "True"
              /\ project_state.version = N + 1
              /\ project_state.history = <<>>
              /\ project_state.user_feedback = <<>>

\* C28: history is append-only and records lineage: whenever current_code is
\* replaced, the replaced content becomes the last element of history, and
\* no step removes, replaces or reorders the entries history already has.
C28_HistoryRecordsLineage ==
    [][/\ project_state'.current_code # project_state.current_code =>
             project_state'.history =
                 Append(project_state.history, project_state.current_code)
       /\ Len(project_state'.history) >= Len(project_state.history)
       /\ SubSeq(project_state'.history, 1, Len(project_state.history))
             = project_state.history]_vars

\* C29: auto_iterative_development called while the file manager is not set
\* returns at once: no model call, no save, project_state unchanged.
C29_UninitialisedRunReturns ==
    [][(pc = "idle" /\ ~file_manager /\ runs' # runs) =>
          /\ ret' = "None"
          /\ pc' = "idle"
          /\ project_state' = project_state
          /\ fs' = fs
          /\ attempt' = attempt
          /\ steps' = steps
          /\ saves' = saves
          /\ attempted' = attempted]_vars

\* a run was asked of a controller whose init_file_manager had failed
C29_RunWithoutFileManager ==
    /\ pc = "idle"
    /\ runs = 1
    /\ ret = "None"
    /\ output_dir
    /\ ~file_manager

\* C22: the write sequences of two instances for one version directory never
\* interleave: no v<k> holds the main file of one successful save together
\* with the checkpoint of another instance's successful save.
C22_NoInterleavedVersion ==
    \A k \in DOMAIN root :
       (/\ root[k].main_by # 0
        /\ root[k].ckpt_by # 0
        /\ <<root[k].main_by, k>> \in completed
        /\ <<root[k].ckpt_by, k>> \in completed)
       => root[k].main_by = root[k].ckpt_by

\* C23: once a successful save has written v<k>, no later step of any
\* instance on the root (a save, successful or failed, a load, a further
\* run, a newly created instance) changes the files of v<k>.
C23_SavedVersionImmutable ==
    [][\A k \in DOMAIN root :
          (\E i \in Instances : <<i, k>> \in completed) => root'[k] = root[k]]_vars

\* C30: a load_existing_project that follows a successful save of content C
\* as version k with history H and feedback F, no write in between, k the
\* latest directory of the root, yields current_code C, history H,
\* user_feedback F and version k+1, the saving instance's own version.
C30_SaveLoadRoundTrip ==
    [][\A j \in Instances :
          (/\ instances'[j].loads = instances[j].loads + 1
           /\ last_saved.by # 0
           /\ \A i \in Instances : instances[i].pc = "idle"
           /\ last_saved.version = Max(VersionDirs(root)))
          => /\ instances'[j].project_state =
                   [current_code |-> last_saved.current_code,
                    version |-> last_saved.version + 1,
                    history |-> last_saved.history,
                    user_feedback |-> last_saved.user_feedback]
             /\ instances[last_saved.by].project_state.version
                   = last_saved.version + 1]_vars

====
